---- MODULE Spec2Model ----
(***************************************************************************)
(* Model of the multi-agent query pipeline: the HTTP handler of            *)
(* src/server.js, CoordinatorAgent.orchestrate, ResearchAgent               *)
(* (extractTopic, normalizeTitle, fetchWikiSummary), AnalysisAgent          *)
(* (extractKeyPoints, inferDifficulty) and TaskAgent (classifyIntent,       *)
(* generateAnswer).                                                         *)
(*                                                                         *)
(* A JavaScript string is a sequence of one-character strings.  A          *)
(* JavaScript value that may be a string, null, undefined or a number is   *)
(* a record [ty, s].                                                       *)
(***************************************************************************)
EXTENDS Integers, Sequences, FiniteSets, TLC

\* ------------------------------------------------------------------------
\* JavaScript values
\* ------------------------------------------------------------------------
Str(s) == [ty |-> "string", s |-> s]
Null == [ty |-> "null", s |-> <<>>]
Undefined == [ty |-> "undefined", s |-> <<>>]
Number42 == [ty |-> "number", s |-> <<"4", "2">>]

\* ToBoolean for the values above (Number42 is a non-zero number).
Truthy(v) ==
    \/ v.ty = "string" /\ v.s # <<>>
    \/ v.ty = "number"

\* String(v), as a template literal or Array.prototype.join converts it.
ToStr(v) ==
    CASE v.ty = "string" -> v.s
      [] v.ty = "number" -> v.s
      [] v.ty = "null" -> <<"n", "u", "l", "l">>
      [] OTHER -> <<"u", "n", "d", "e", "f", "i", "n", "e", "d">>

\* ------------------------------------------------------------------------
\* Characters and the String methods the agents use
\* ------------------------------------------------------------------------
UpperAlpha ==
    <<"A", "B", "C", "D", "E", "F", "G", "H", "I", "J", "K", "L", "M",
      "N", "O", "P", "Q", "R", "S", "T", "U", "V", "W", "X", "Y", "Z">>

LowerAlpha ==
    <<"a", "b", "c", "d", "e", "f", "g", "h", "i", "j", "k", "l", "m",
      "n", "o", "p", "q", "r", "s", "t", "u", "v", "w", "x", "y", "z">>

Digits == {"0", "1", "2", "3", "4", "5", "6", "7", "8", "9"}

Range(f) == {f[i] : i \in DOMAIN f}

\* \s of a JavaScript regular expression, and the characters trim() removes.
IsSpace(c) == c \in {" ", "\t", "\n", "\r"}

\* Line terminators: the characters '.' of a regular expression never matches.
IsLineTerminator(c) == c \in {"\n", "\r"}

\* \w of a JavaScript regular expression.
IsWordChar(c) == c \in Range(UpperAlpha) \cup Range(LowerAlpha) \cup Digits \cup {"_"}

toLowerChar(c) ==
    IF c \in Range(UpperAlpha)
    THEN LowerAlpha[CHOOSE i \in 1..26 : UpperAlpha[i] = c]
    ELSE c

toUpperChar(c) ==
    IF c \in Range(LowerAlpha)
    THEN UpperAlpha[CHOOSE i \in 1..26 : LowerAlpha[i] = c]
    ELSE c

toLowerCase(s) == [i \in 1..Len(s) |-> toLowerChar(s[i])]

\* s.slice(i - 1): the suffix of s that starts at 1-based position i.
From(s, i) == SubSeq(s, i, Len(s))

RECURSIVE trimStart(_)
trimStart(s) ==
    IF s # <<>> /\ IsSpace(Head(s)) THEN trimStart(Tail(s)) ELSE s

RECURSIVE trimEnd(_)
trimEnd(s) ==
    IF s # <<>> /\ IsSpace(s[Len(s)]) THEN trimEnd(SubSeq(s, 1, Len(s) - 1)) ELSE s

trim(s) == trimEnd(trimStart(s))

\* s.replace(/[?]/g, '')
removeQuestionMarks(s) == SelectSeq(s, LAMBDA c : c # "?")

\* s.replace(/[^\w\s]/g, '')
removePunctuation(s) == SelectSeq(s, LAMBDA c : IsWordChar(c) \/ IsSpace(c))

\* s.split(/\s+/).filter(Boolean): the maximal runs of non-space characters.
RECURSIVE splitAcc(_, _, _)
splitAcc(s, cur, acc) ==
    IF s = <<>>
    THEN IF cur = <<>> THEN acc ELSE Append(acc, cur)
    ELSE IF IsSpace(Head(s))
         THEN splitAcc(Tail(s), <<>>, IF cur = <<>> THEN acc ELSE Append(acc, cur))
         ELSE splitAcc(Tail(s), Append(cur, Head(s)), acc)

splitWords(s) == splitAcc(s, <<>>, <<>>)

\* words.join(sep)
RECURSIVE join(_, _)
join(words, sep) ==
    IF words = <<>> THEN <<>>
    ELSE IF Len(words) = 1 THEN words[1]
    ELSE words[1] \o sep \o join(Tail(words), sep)

\* words.slice(-2)
lastTwo(words) ==
    IF Len(words) <= 2 THEN words ELSE SubSeq(words, Len(words) - 1, Len(words))

\* s.startsWith(p) at 1-based position i
matchesAt(s, p, i) ==
    /\ i + Len(p) - 1 <= Len(s)
    /\ \A k \in 1..Len(p) : s[i + k - 1] = p[k]

\* s.includes(p)
includes(s, p) == \E i \in 1..(Len(s) + 1) : matchesAt(s, p, i)

\* ------------------------------------------------------------------------
\* Words
\* ------------------------------------------------------------------------
SP == <<" ">>

FILLER_WORDS ==
    { <<"e", "x", "p", "l", "a", "i", "n">>, <<"w", "h", "a", "t">>, <<"i", "s">>,
      <<"a", "r", "e">>, <<"f", "o", "r">>, <<"a">>, <<"a", "n">>, <<"t", "h", "e">>,
      <<"o", "f">>, <<"i", "n">>, <<"t", "o">>, <<"h", "o", "w">>, <<"d", "o">>, <<"i">>,
      <<"g", "e", "t">>, <<"s", "t", "a", "r", "t", "e", "d">>,
      <<"b", "e", "g", "i", "n", "n", "e", "r", "s">>, <<"l", "e", "a", "r", "n">>,
      <<"c", "o", "m", "p", "a", "r", "e">>, <<"v", "s">>,
      <<"o", "v", "e", "r", "v", "i", "e", "w">>, <<"t", "e", "l", "l">>, <<"m", "e">>,
      <<"a", "b", "o", "u", "t">>, <<"p", "l", "e", "a", "s", "e">> }

PRICE_WORDS ==
    { <<"c", "o", "s", "t">>, <<"p", "r", "i", "c", "e">>, <<"n", "e", "w">>,
      <<"a", "v", "e", "r", "a", "g", "e">>, <<"c", "a", "r">>, <<"b", "u", "y">> }

\* ------------------------------------------------------------------------
\* ResearchAgent: normalizeTitle and extractTopic
\* ------------------------------------------------------------------------
capitalize(word) ==
    IF word = <<>> THEN word ELSE <<toUpperChar(word[1])>> \o Tail(word)

normalizeTitle(phrase) ==
    LET words == splitWords(removeQuestionMarks(trim(phrase)))
    IN  join([i \in 1..Len(words) |-> capitalize(words[i])], <<"_">>)

\* The position just after the maximal run of \s characters that starts at i,
\* or 0 when there is no \s character at i (\s+ does not match).
RECURSIVE skipSpaces(_, _)
skipSpaces(s, i) ==
    IF i <= Len(s) /\ IsSpace(s[i]) THEN skipSpaces(s, i + 1) ELSE i

afterSpaces(s, i) ==
    IF i <= Len(s) /\ IsSpace(s[i]) THEN skipSpaces(s, i) ELSE 0

\* (.+)$ from position i: the rest of the input, non-empty and free of line
\* terminators; <<>> when the group cannot match.
restOfLine(s, i) ==
    IF /\ i >= 1
       /\ i <= Len(s)
       /\ \A k \in i..Len(s) : ~IsLineTerminator(s[k])
    THEN From(s, i)
    ELSE <<>>

QuestionWords ==
    << <<"w", "h", "o">>, <<"w", "h", "a", "t">>, <<"w", "h", "e", "r", "e">>,
       <<"w", "h", "e", "n">>, <<"w", "h", "y">>, <<"h", "o", "w">> >>

CopulaWords ==
    << <<"i", "s">>, <<"w", "a", "s">>, <<"a", "r", "e">>, <<"w", "e", "r", "e">> >>

TellMeAbout == <<"t", "e", "l", "l", " ", "m", "e", " ", "a", "b", "o", "u", "t">>

GiveMeAnOverviewOf ==
    <<"g", "i", "v", "e", " ", "m", "e", " ", "a", "n", " ",
      "o", "v", "e", "r", "v", "i", "e", "w", " ", "o", "f">>

\* ^<prefix>\s+(.+)$ with the i flag: the captured rest, or <<>> (no match).
matchPrefixThenRest(s, prefix) ==
    IF matchesAt(toLowerCase(s), prefix, 1)
    THEN LET j == afterSpaces(s, Len(prefix) + 1)
         IN  IF j = 0 THEN <<>> ELSE restOfLine(s, j)
    ELSE <<>>

\* /^(who|what|where|when|why|how)\s+(is|was|are|were)\s+(.+)$/i : match[3]
matchQuestion(s) ==
    LET low == toLowerCase(s)
        qs == {q \in 1..Len(QuestionWords) :
                 /\ matchesAt(low, QuestionWords[q], 1)
                 /\ afterSpaces(s, Len(QuestionWords[q]) + 1) # 0}
    IN  IF qs = {} THEN <<>>
        ELSE LET q == CHOOSE q \in qs : TRUE
                 j == afterSpaces(s, Len(QuestionWords[q]) + 1)
                 cs == {c \in 1..Len(CopulaWords) :
                          /\ matchesAt(low, CopulaWords[c], j)
                          /\ afterSpaces(s, j + Len(CopulaWords[c])) # 0}
             IN  IF cs = {} THEN <<>>
                 ELSE LET c == CHOOSE c \in cs : TRUE
                      IN  restOfLine(s, afterSpaces(s, j + Len(CopulaWords[c])))

\* match[3] || match[2] of the three patterns, in the order they are tried.
patternCaptures(trimmed) ==
    << matchQuestion(trimmed),
       matchPrefixThenRest(trimmed, TellMeAbout),
       matchPrefixThenRest(trimmed, GiveMeAnOverviewOf) >>

isKeyToken(t) == t \notin FILLER_WORDS /\ t \notin PRICE_WORDS

\* The pattern branch giving up when token filtering leaves nothing.
patternTitleGivesUpWhenAllFiltered(rawTopic) ==
    LET phrase0 == trim(removeQuestionMarks(rawTopic))
        tokens == splitWords(toLowerCase(phrase0))
        keyTokens == SelectSeq(tokens, isKeyToken)
    IN  IF keyTokens # <<>> THEN normalizeTitle(join(lastTwo(keyTokens), SP)) ELSE <<>>

\* The body of the pattern loop for one captured rawTopic: the normalized
\* title the iteration computes.
patternTitle(rawTopic) ==
    LET phrase0 == trim(removeQuestionMarks(rawTopic))
        tokens == splitWords(toLowerCase(phrase0))
        keyTokens == SelectSeq(tokens, isKeyToken)
        phrase == IF keyTokens # <<>> THEN join(lastTwo(keyTokens), SP) ELSE phrase0
    IN  normalizeTitle(phrase)

\* The for loop over the patterns: the first normalized title of length >= 3,
\* or <<>> when the loop falls through.
RECURSIVE patternLoop(_)
patternLoop(captures) ==
    IF captures = <<>> THEN <<>>
    ELSE IF Head(captures) # <<>> /\ Len(patternTitle(Head(captures))) >= 3
         THEN patternTitle(Head(captures))
         ELSE patternLoop(Tail(captures))

\* Step 2 and 3 of extractTopic: the keyword fallback, then the normalized
\* original query.
keywordFallback(query) ==
    LET lower == toLowerCase(trim(query))
        words == SelectSeq(splitWords(removePunctuation(lower)),
                           LAMBDA w : w \notin FILLER_WORDS)
        filtered == SelectSeq(words, LAMBDA w : w \notin PRICE_WORDS)
        candidate0 == IF filtered # <<>> THEN filtered ELSE words
        candidate == IF Len(candidate0) >= 2 THEN lastTwo(candidate0) ELSE candidate0
        extracted == join(candidate, <<"_">>)
    IN  IF Len(extracted) >= 3
        THEN normalizeTitle(join(candidate, SP))
        ELSE normalizeTitle(query)

\* extractTopic(query) for a string query.
extractTopic(query) ==
    LET trimmed == trim(query)
    IN  IF query = <<>> \/ trimmed = <<>> THEN <<>>
        ELSE IF patternLoop(patternCaptures(trimmed)) # <<>>
             THEN patternLoop(patternCaptures(trimmed))
             ELSE keywordFallback(query)

\* ------------------------------------------------------------------------
\* AnalysisAgent: inferDifficulty, extractKeyPoints, run
\* ------------------------------------------------------------------------
ADVANCED_WORDS ==
    { <<"c", "l", "u", "s", "t", "e", "r">>,
      <<"o", "r", "c", "h", "e", "s", "t", "r", "a", "t", "i", "o", "n">>,
      <<"d", "i", "s", "t", "r", "i", "b", "u", "t", "e", "d">>,
      <<"c", "o", "n", "c", "u", "r", "r", "e", "n", "c", "y">>,
      <<"c", "o", "n", "t", "a", "i", "n", "e", "r", "i", "z", "a", "t", "i", "o", "n">>,
      <<"s", "c", "a", "l", "a", "b", "i", "l", "i", "t", "y">>,
      <<"s", "t", "a", "t", "e", "l", "e", "s", "s">>,
      <<"l", "a", "t", "e", "n", "c", "y">>,
      <<"a", "s", "y", "n", "c", "h", "r", "o", "n", "o", "u", "s">>,
      <<"p", "i", "p", "e", "l", "i", "n", "e">>,
      <<"m", "i", "c", "r", "o", "s", "e", "r", "v", "i", "c", "e", "s">> }

BEGINNER_WORDS ==
    { <<"i", "n", "t", "r", "o", "d", "u", "c", "t", "i", "o", "n">>,
      <<"b", "a", "s", "i", "c">>,
      <<"g", "e", "t", "t", "i", "n", "g", " ", "s", "t", "a", "r", "t", "e", "d">>,
      <<"s", "i", "m", "p", "l", "e">>,
      <<"f", "u", "n", "d", "a", "m", "e", "n", "t", "a", "l">>,
      <<"b", "e", "g", "i", "n", "n", "e", "r">> }

inferDifficulty(summary) ==
    LET lowerSummary == toLowerCase(summary)
        advancedCount == Cardinality({w \in ADVANCED_WORDS : includes(lowerSummary, w)})
        beginnerCount == Cardinality({w \in BEGINNER_WORDS : includes(lowerSummary, w)})
    IN  IF beginnerCount > advancedCount /\ beginnerCount >= 1 THEN "beginner"
        ELSE IF advancedCount >= 2 THEN "intermediate-advanced"
        ELSE "intermediate"

IsTerminator(c) == c \in {".", "!", "?"}

\* The position of the first '.', '!' or '?' at or after i, Len(s) + 1 if none.
RECURSIVE nextTerminator(_, _)
nextTerminator(s, i) ==
    IF i > Len(s) \/ IsTerminator(s[i]) THEN i ELSE nextTerminator(s, i + 1)

\* summary.match(/[^.!?]+[.!?]\s+/g): all matches scanning from position i.
RECURSIVE sentenceMatches(_, _)
sentenceMatches(s, i) ==
    IF i > Len(s) THEN <<>>
    ELSE IF IsTerminator(s[i]) THEN sentenceMatches(s, i + 1)
    ELSE LET j == nextTerminator(s, i)
         IN  IF j > Len(s) THEN <<>>
             ELSE IF afterSpaces(s, j + 1) = 0 THEN sentenceMatches(s, j + 1)
             ELSE <<SubSeq(s, i, afterSpaces(s, j + 1) - 1)>>
                      \o sentenceMatches(s, afterSpaces(s, j + 1))

\* .filter(s => s.length > 20)
MinKeyPointLength == 20

\* maxPoints = 5
maxPoints == 5

extractKeyPoints(summary) ==
    IF summary = <<>> THEN <<>>
    ELSE LET found == sentenceMatches(summary, 1)
             sentences == IF found = <<>> THEN <<summary>> ELSE found
             trimmedSentences == [i \in 1..Len(sentences) |-> trim(sentences[i])]
             kept == SelectSeq(trimmedSentences, LAMBDA p : Len(p) > MinKeyPointLength)
         IN  SubSeq(kept, 1, IF Len(kept) < maxPoints THEN Len(kept) ELSE maxPoints)

\* o.name for a property the object may not have.
Field(o, name) == IF name \in DOMAIN o THEN o[name] ELSE Undefined

NoContentAdvisory == "No research content was found to analyze."

ContentAdvisory ==
    "These points are based on an initial Wikipedia summary; always cross-check for critical or specific decisions."

\* summary.match(...) on a truthy summary that is not a string is a TypeError.
AnalysisAgentThrows(researchResult) ==
    /\ researchResult.ok
    /\ Truthy(researchResult.summary)
    /\ researchResult.summary.ty # "string"

\* run testing only researchResult.ok, not the summary.
AnalysisAgentRunIgnoresSummary(researchResult) ==
    IF ~researchResult.ok
    THEN [hasContent |-> FALSE, difficulty |-> "unknown", keyPoints |-> <<>>,
          advisory |-> NoContentAdvisory]
    ELSE LET summary == researchResult.summary.s
             keyPoints == extractKeyPoints(summary)
         IN  [hasContent |-> TRUE,
              difficulty |-> inferDifficulty(summary),
              keyPoints |-> IF keyPoints = <<>> THEN <<summary>> ELSE keyPoints,
              advisory |-> ContentAdvisory]

\* AnalysisAgent.run(researchResult) when it returns.
AnalysisAgentRun(researchResult) ==
    IF ~researchResult.ok \/ ~Truthy(researchResult.summary)
    THEN [hasContent |-> FALSE, difficulty |-> "unknown", keyPoints |-> <<>>,
          advisory |-> NoContentAdvisory]
    ELSE LET summary == researchResult.summary.s
             keyPoints == extractKeyPoints(summary)
         IN  [hasContent |-> TRUE,
              difficulty |-> inferDifficulty(summary),
              keyPoints |-> IF keyPoints = <<>> THEN <<summary>> ELSE keyPoints,
              advisory |-> ContentAdvisory]

\* ------------------------------------------------------------------------
\* TaskAgent: classifyIntent, generateAnswer, run
\* ------------------------------------------------------------------------
GettingStartedPhrases ==
    { <<"h", "o", "w", " ", "t", "o">>,
      <<"h", "o", "w", " ", "d", "o", " ", "i">>,
      <<"g", "e", "t", " ", "s", "t", "a", "r", "t", "e", "d">>,
      <<"f", "o", "r", " ", "b", "e", "g", "i", "n", "n", "e", "r", "s">>,
      <<"l", "e", "a", "r", "n">> }

ComparisonPhrases ==
    { <<"c", "o", "m", "p", "a", "r", "e">>, <<" ", "v", "s", " ">> }

\* The comparison rule tried before the getting-started rule.
classifyIntentComparisonFirst(query, hasContent) ==
    IF ~hasContent THEN "no-content"
    ELSE LET lowerQuery == toLowerCase(query)
         IN  IF \E p \in ComparisonPhrases : includes(lowerQuery, p)
             THEN "comparison"
             ELSE IF \E p \in GettingStartedPhrases : includes(lowerQuery, p)
                  THEN "getting-started"
                  ELSE "overview"

classifyIntent(query, hasContent) ==
    IF ~hasContent THEN "no-content"
    ELSE LET lowerQuery == toLowerCase(query)
         IN  IF \E p \in GettingStartedPhrases : includes(lowerQuery, p)
             THEN "getting-started"
             ELSE IF \E p \in ComparisonPhrases : includes(lowerQuery, p)
                  THEN "comparison"
                  ELSE "overview"

\* A rendered text is a sequence of pieces, each a literal of the template
\* followed by the text of one interpolated value.
Lit(text) == [lit |-> text, txt |-> <<>>]
Val(chars) == [lit |-> "", txt |-> chars]

\* difficulty.charAt(0).toUpperCase() + difficulty.slice(1)
difficultyText(difficulty) ==
    CASE difficulty = "beginner" -> "Beginner"
      [] difficulty = "intermediate" -> "Intermediate"
      [] difficulty = "intermediate-advanced" -> "Intermediate-advanced"
      [] OTHER -> "Unknown"

\* keyPoints.forEach(point => { answer += prefix + point + suffix })
RECURSIVE bulletList(_, _, _)
bulletList(keyPoints, prefix, suffix) ==
    IF keyPoints = <<>> THEN <<>>
    ELSE <<Lit(prefix), Val(Head(keyPoints)), Lit(suffix)>>
             \o bulletList(Tail(keyPoints), prefix, suffix)

\* The emoji of the templates are written as bracketed names.
Heading == "## [books] "

generateAnswer(research, analysis, mode) ==
    LET topic == ToStr(Field(research, "topic"))
        url == ToStr(Field(research, "url"))
        level == Lit(difficultyText(analysis.difficulty))
        head == <<Lit(Heading), Val(topic), Lit("\n\n")>>
        body ==
            IF mode = "getting-started"
            THEN <<Lit("**Presentation Mode: GETTING STARTED**\n\n"),
                   Lit("Welcome! The topic of **"), Val(topic),
                   Lit("** has been identified with a complexity level of: **"),
                   level, Lit("**.\n\n"),
                   Lit("To start your learning journey, focus on the fundamentals outlined below:\n\n")>>
                 \o bulletList(analysis.keyPoints, "- **", "**\n")
                 \o <<Lit("\n---\n\n"), Lit("### [bulb] Suggested Next Steps\n"),
                      Lit("* **Read the Official Docs:** Start with the main documentation page linked below.\n"),
                      Lit("* **Try a Simple Tutorial:** Search for a \"Hello World\" or equivalent first project.\n"),
                      Lit("* **Understand Core Concepts:** Ensure you grasp the basic principles (e.g., if it's a tech topic, what is its primary problem domain?).\n\n")>>
            ELSE IF mode = "comparison"
            THEN <<Lit("**Presentation Mode: COMPARISON**\n\n"),
                   Lit("Here is an **Overview** of **"), Val(topic),
                   Lit("** to help you start your comparison (Difficulty: **"),
                   level, Lit("**):\n\n")>>
                 \o bulletList(analysis.keyPoints, "* ", "\n")
                 \o <<Lit("\n---\n\n"),
                      Lit("For a detailed comparison, you'll need to research its key alternatives and competitors. The points above provide its core foundation.\n\n")>>
            ELSE <<Lit("**Presentation Mode: OVERVIEW**\n\n"),
                   Lit("Here's a high-level overview of **"), Val(topic),
                   Lit("** (Difficulty: **"), level, Lit("**):\n\n")>>
                 \o bulletList(analysis.keyPoints, "* ", "\n")
        footer == <<Lit("\n---\n"),
                    Lit("**Source URL:** [Wikipedia: "), Val(topic), Lit("]("), Val(url),
                    Lit(")\n"),
                    Lit("**Advisory:** *"), Lit(analysis.advisory), Lit("*\n")>>
    IN  head \o body \o footer

\* The no-content template of TaskAgent.run.
noContentAnswer(query, researchResult) ==
    LET topic == Field(researchResult, "topic")
        errorSummary == Field(researchResult, "errorSummary")
        error == Field(researchResult, "error")
        topicsTried == IF Truthy(topic) THEN Val(ToStr(topic))
                       ELSE Lit("No candidate topics were generated")
        reason == IF Truthy(errorSummary) THEN Val(ToStr(errorSummary))
                  ELSE IF Truthy(error) THEN Val(ToStr(error))
                  ELSE Lit("No suitable Wikipedia article was found for this query.")
    IN  <<Lit("## [x] No Content Found\n\nThe agent pipeline could not build an answer from Wikipedia for your question.\n\nQuery: "),
          Val(query), Lit("\nTopics tried: "), topicsTried, Lit("\nReason: "), reason,
          Lit("\n\nSuggestions:\n"),
          Lit("- Try using a broader or simpler topic (remove prices, dates, or very local details).\n"),
          Lit("- Check spelling for names or technical terms.\n"),
          Lit("- If your question is about a very specific product or version, try asking about the general concept instead.")>>

\* TaskAgent.run(query, researchResult, analysisResult)
TaskAgentRun(query, researchResult, analysisResult) ==
    LET mode == classifyIntent(query, analysisResult.hasContent)
    IN  [mode |-> mode,
         finalAnswer |-> IF mode = "no-content"
                         THEN noContentAnswer(query, researchResult)
                         ELSE generateAnswer(researchResult, analysisResult, mode)]

\* ------------------------------------------------------------------------
\* ResearchAgent: fetchWikiSummary and run
\* ------------------------------------------------------------------------
WikiPagePrefix ==
    <<"h", "t", "t", "p", "s", ":", "/", "/", "e", "n", ".", "w", "i", "k",
      "i", "p", "e", "d", "i", "a", ".", "o", "r", "g", "/", "w", "i", "k",
      "i", "/">>

NetworkErrorMessage ==
    <<"N", "e", "t", "w", "o", "r", "k", " ", "o", "r", " ", "u", "n", "k",
      "n", "o", "w", "n", " ", "A", "P", "I", " ", "e", "r", "r", "o", "r",
      ".">>

NoResponseMessage ==
    <<"N", "o", " ", "r", "e", "s", "p", "o", "n", "s", "e", " ", "r", "e",
      "c", "e", "i", "v", "e", "d", " ", "f", "r", "o", "m", " ", "W", "i",
      "k", "i", "p", "e", "d", "i", "a", " ", "A", "P", "I", ".">>

NotFoundMessagePrefix ==
    <<"T", "o", "p", "i", "c", " ", "n", "o", "t", " ", "f", "o", "u", "n",
      "d", " ", "o", "n", " ", "W", "i", "k", "i", "p", "e", "d", "i", "a",
      " ", "(", "H", "T", "T", "P", " ">>

ErrorStatusMessagePrefix ==
    <<"W", "i", "k", "i", "p", "e", "d", "i", "a", " ", "A", "P", "I", " ",
      "r", "e", "t", "u", "r", "n", "e", "d", " ", "e", "r", "r", "o", "r",
      " ", "s", "t", "a", "t", "u", "s", " ">>

DigitChars == <<"0", "1", "2", "3", "4", "5", "6", "7", "8", "9">>

\* String(httpStatus) for a three-digit status.
statusText(status) ==
    <<DigitChars[(status \div 100) + 1], DigitChars[((status \div 10) % 10) + 1],
      DigitChars[(status % 10) + 1]>>

\* The outcomes of axios.get: a 2xx response with a body, or a rejection
\* with an error that has a response, only a request, or neither.
Resolved(data) == [kind |-> "resolve", data |-> data]
HttpError(status) == [kind |-> "reject", hasResponse |-> TRUE, status |-> status, hasRequest |-> TRUE]
NoResponseError == [kind |-> "reject", hasResponse |-> FALSE, status |-> 0, hasRequest |-> TRUE]
OtherError == [kind |-> "reject", hasResponse |-> FALSE, status |-> 0, hasRequest |-> FALSE]

\* A property read on null or undefined inside the try block is a TypeError:
\* data.title on a missing body, data.content_urls.desktop.page without desktop.
fetchTryThrows(outcome) ==
    \/ outcome.kind = "reject"
    \/ outcome.data \in {Null, Undefined}
    \/ /\ outcome.data.content_urls # Undefined
       /\ outcome.data.content_urls.desktop = Undefined

\* The catch block of fetchWikiSummary.
fetchErrorMessage(outcome) ==
    IF outcome.kind = "reject" /\ outcome.hasResponse
    THEN IF outcome.status = 404
         THEN NotFoundMessagePrefix \o statusText(outcome.status) \o <<")", ".">>
         ELSE ErrorStatusMessagePrefix \o statusText(outcome.status) \o <<".">>
    ELSE IF outcome.kind = "reject" /\ outcome.hasRequest
         THEN NoResponseMessage
         ELSE NetworkErrorMessage

\* fetchWikiSummary(topic) for one outcome of the request.
fetchWikiSummary(topic, outcome) ==
    IF fetchTryThrows(outcome)
    THEN [topic |-> Str(topic), source |-> "wikipedia", ok |-> FALSE,
          summary |-> Null, url |-> Null, error |-> Str(fetchErrorMessage(outcome))]
    ELSE LET data == outcome.data
         IN  [topic |-> data.title, source |-> "wikipedia", ok |-> TRUE,
              summary |-> data.extract,
              url |-> IF data.content_urls # Undefined
                      THEN data.content_urls.desktop.page
                      ELSE Str(WikiPagePrefix \o topic),
              raw |-> [pageid |-> data.pageid,
                       thumbnail |-> IF data.thumbnail = Undefined THEN Null
                                     ELSE data.thumbnail]]

\* ------------------------------------------------------------------------
\* CoordinatorAgent.orchestrate: the responses of its three exits
\* ------------------------------------------------------------------------
\* The task stage called outside any try block.
GuardedStagesWithoutTask == {"research", "analysis"}

\* The calls of orchestrate that sit in a try block with a catch clause.
GuardedStages == {"research", "analysis", "task"}

\* The research catch clause answering with a default analysis, not null.
researchFailedResponseWithAnalysis(query) ==
    [error |-> TRUE,
     errorMessage |-> "Research step failed unexpectedly.",
     research |-> Null,
     analysis |-> [hasContent |-> FALSE, difficulty |-> "unknown", keyPoints |-> <<>>,
                   advisory |-> "Analysis failed unexpectedly."],
     task |-> [mode |-> "no-content"],
     finalAnswer |->
        <<Lit("No Content Found\n\nThe research agent encountered an unexpected error while processing your query: \""),
          Val(query), Lit("\".")>>]

researchFailedResponse(query) ==
    [error |-> TRUE,
     errorMessage |-> "Research step failed unexpectedly.",
     research |-> Null,
     analysis |-> Null,
     task |-> [mode |-> "no-content"],
     finalAnswer |->
        <<Lit("No Content Found\n\nThe research agent encountered an unexpected error while processing your query: \""),
          Val(query), Lit("\".")>>]

analysisDefault ==
    [hasContent |-> FALSE, difficulty |-> "unknown", keyPoints |-> <<>>,
     advisory |-> "Analysis failed unexpectedly."]

\* The task catch clause dropping what the earlier stages computed.
taskFailedResponseDropsResults(query, researchResult, analysisResult) ==
    [error |-> TRUE,
     errorMessage |-> "Task planning failed unexpectedly.",
     research |-> Null,
     analysis |-> Null,
     task |-> [mode |-> "no-content"],
     finalAnswer |->
        <<Lit("An internal error prevented generating a final answer for the query: \""),
          Val(query), Lit("\".")>>]

taskFailedResponse(query, researchResult, analysisResult) ==
    [error |-> TRUE,
     errorMessage |-> "Task planning failed unexpectedly.",
     research |-> researchResult,
     analysis |-> analysisResult,
     task |-> [mode |-> "no-content"],
     finalAnswer |->
        <<Lit("An internal error prevented generating a final answer for the query: \""),
          Val(query), Lit("\".")>>]

successResponse(query, now, researchResult, analysisResult, taskResult) ==
    [query |-> query,
     timestamp |-> now,
     research |-> researchResult,
     analysis |-> analysisResult,
     task |-> [mode |-> taskResult.mode],
     finalAnswer |-> taskResult.finalAnswer]

\* ------------------------------------------------------------------------
\* server.js: validation of the request body
\* ------------------------------------------------------------------------
\* !query || typeof query !== 'string'
invalidQuery(v) == ~Truthy(v) \/ v.ty # "string"

\* ------------------------------------------------------------------------
\* Bounds and inputs
\* ------------------------------------------------------------------------
\* Sentences per generated summary.
MaxSentences == 3

\* Phrases per generated query.
MaxTokens == 3

\* Values the clock can show when the response is stamped.
MaxClock == 2

AdaLovelace == <<"A", "d", "a", " ", "L", "o", "v", "e", "l", "a", "c", "e">>

AdaLovelaceUrl ==
    <<"h", "t", "t", "p", "s", ":", "/", "/", "e", "n", ".", "w", "i", "k",
      "i", "p", "e", "d", "i", "a", ".", "o", "r", "g", "/", "w", "i", "k",
      "i", "/", "A", "d", "a", "_", "L", "o", "v", "e", "l", "a", "c", "e">>

SentenceA ==
    <<"A", "d", "a", " ", "L", "o", "v", "e", "l", "a", "c", "e", " ", "w",
      "a", "s", " ", "a", " ", "m", "a", "t", "h", "e", "m", "a", "t", "i",
      "c", "i", "a", "n", ".">>

SentenceB ==
    <<"S", "h", "e", " ", "w", "r", "o", "t", "e", " ", "t", "h", "e", " ",
      "f", "i", "r", "s", "t", " ", "p", "r", "o", "g", "r", "a", "m", "!">>

SentenceC ==
    <<"H", "e", "r", " ", "n", "o", "t", "e", "s", " ", "w", "e", "r", "e",
      " ", "p", "u", "b", "l", "i", "s", "h", "e", "d", "?">>

\* Twenty characters with its full stop: not longer than 20.
SentenceTwenty ==
    <<"E", "x", "a", "c", "t", "l", "y", " ", "t", "w", "e", "n", "t", "y",
      " ", "l", "o", "n", "g", ".">>

\* Two beginner terms.
SentenceBeginner ==
    <<"A", " ", "s", "i", "m", "p", "l", "e", " ", "a", "n", "d", " ", "b",
      "a", "s", "i", "c", " ", "p", "r", "i", "m", "e", "r", ".">>

\* Three advanced terms.
SentenceAdvanced ==
    <<"A", " ", "d", "i", "s", "t", "r", "i", "b", "u", "t", "e", "d", " ",
      "c", "l", "u", "s", "t", "e", "r", " ", "p", "i", "p", "e", "l", "i",
      "n", "e", ".">>

SentenceOptions == {SentenceA, SentenceB, SentenceC, SentenceTwenty, SentenceBeginner}

PlainSentences == {SentenceA, SentenceB, SentenceC}

SentenceLists == UNION {[1..k -> SentenceOptions] : k \in 1..MaxSentences}

\* Sentences separated by one space, with or without a space after the last.
Summaries == {join(ss, SP) \o tail : ss \in SentenceLists, tail \in {<<>>, SP}}

ThreeSentenceSummary == join(<<SentenceA, SentenceB, SentenceC>>, SP)

fullBody(extract) ==
    [title |-> Str(AdaLovelace), extract |-> extract,
     content_urls |-> [desktop |-> [page |-> Str(AdaLovelaceUrl)]],
     pageid |-> Number42, thumbnail |-> Undefined]

\* Bodies the service can answer with other than a full summary page.
EdgeBodies ==
    { Null,
      [fullBody(Undefined) EXCEPT !.title = Undefined, !.content_urls = Undefined,
                                  !.pageid = Undefined],
      fullBody(Undefined), fullBody(Null), fullBody(Str(<<>>)), fullBody(Number42),
      fullBody(Str(SentenceAdvanced)),
      [fullBody(Str(ThreeSentenceSummary)) EXCEPT !.content_urls = Undefined],
      [fullBody(Str(ThreeSentenceSummary)) EXCEPT !.content_urls = [desktop |-> Undefined]],
      [fullBody(Str(ThreeSentenceSummary)) EXCEPT
          !.content_urls = [desktop |-> [page |-> Undefined]]] }

HttpStatuses == {404, 500, 503}

ServiceOutcomes ==
    {Resolved(fullBody(Str(s))) : s \in Summaries}
        \cup {Resolved(b) : b \in EdgeBodies}
        \cup {HttpError(st) : st \in HttpStatuses}
        \cup {NoResponseError, OtherError}

WhoIsAdaLovelace ==
    <<"w", "h", "o", " ", "i", "s", " ", "A", "d", "a", " ", "L", "o", "v",
      "e", "l", "a", "c", "e">>

HowToLearnGo ==
    <<"h", "o", "w", " ", "t", "o", " ", "l", "e", "a", "r", "n", " ", "G", "o">>

PythonVsGo == <<"P", "y", "t", "h", "o", "n", " ", "v", "s", " ", "G", "o">>

\* The values of body.query the handler is posted.
BodyQueries ==
    { Undefined, Null, Number42, Str(<<>>), Str(<<" ", " ">>), Str(<<"?">>),
      Str(WhoIsAdaLovelace), Str(HowToLearnGo), Str(PythonVsGo) }

\* Queries made of up to MaxTokens phrases joined by single spaces.
phraseQueries(phrases) ==
    {join(ps, SP) : ps \in UNION {[1..k -> phrases] : k \in 1..MaxTokens}}

TopicPhrases ==
    { <<>>, <<"?">>, <<"w", "h", "o", " ", "i", "s">>, <<"W", "h", "a", "t", " ", "i", "s">>,
      TellMeAbout, <<"t", "h", "e">>, <<"c", "o", "s", "t">>, <<"a">>, <<"a", "d", "a">>,
      <<"L", "o", "v", "e", "l", "a", "c", "e", "?">>, <<"c", "+", "+">>,
      <<"x", "\n", "y">> }

TopicQueries == phraseQueries(TopicPhrases)

IntentPhrases ==
    { <<>>, <<"H", "o", "w", " ", "t", "o">>, <<"h", "o", "w", " ", "d", "o", " ", "I">>,
      <<"g", "e", "t", " ", "s", "t", "a", "r", "t", "e", "d">>,
      <<"f", "o", "r", " ", "b", "e", "g", "i", "n", "n", "e", "r", "s">>,
      <<"l", "e", "a", "r", "n", "i", "n", "g">>, <<"C", "o", "m", "p", "a", "r", "e">>,
      <<"v", "s">>, <<"P", "y", "t", "h", "o", "n">>, <<"G", "o">> }

IntentQueries == phraseQueries(IntentPhrases)

\* ------------------------------------------------------------------------
\* State
\* ------------------------------------------------------------------------
VARIABLES
    pc,              \* position of the request: Idle, Researching, Analyzing,
                     \* Planning, Done, Responded; call/return for a function
    body,            \* body.query of the posted request
    query,           \* the argument of orchestrate
    primaryTopic,    \* the lookup key the request to the service is made for
    researchResult,  \* orchestrate's local researchResult
    analysisResult,  \* orchestrate's local analysisResult
    response,        \* the object orchestrate returned
    http,            \* what the handler sent: status and JSON body
    calls,           \* how often orchestrate and each stage were invoked
    threw,           \* the stages that threw
    returned,        \* how many objects orchestrate returned
    escaped,         \* whether orchestrate rejected with an exception
    input,           \* arguments of the function under call
    output           \* its result

vars == <<pc, body, query, primaryTopic, researchResult, analysisResult, response,
          http, calls, threw, returned, escaped, input, output>>

pipelineVars == <<body, query, primaryTopic, researchResult, analysisResult, response,
                  http, calls, threw, returned, escaped>>

NoHttp == [status |-> 0, body |-> Undefined]

PipelineIdle ==
    /\ body = Undefined
    /\ query = <<>>
    /\ primaryTopic = <<>>
    /\ researchResult = Undefined
    /\ analysisResult = Undefined
    /\ response = Undefined
    /\ http = NoHttp
    /\ calls = [orchestrate |-> 0, research |-> 0, analysis |-> 0, task |-> 0]
    /\ threw = {}
    /\ returned = 0
    /\ escaped = FALSE

Init ==
    /\ pc = "Idle"
    /\ PipelineIdle
    /\ input = Undefined
    /\ output = Undefined

\* ------------------------------------------------------------------------
\* The request handler and the stages of orchestrate
\* ------------------------------------------------------------------------
\* app.post('/api/query'): validation, then orchestrate up to the request that
\* ResearchAgent.run awaits.
PostQuery(v) ==
    /\ pc = "Idle"
    /\ body' = v
    /\ IF invalidQuery(v)
       THEN /\ http' = [status |-> 400,
                        body |-> [error |-> "Invalid or missing query in request body."]]
            /\ pc' = "Responded"
            /\ UNCHANGED <<query, primaryTopic, calls>>
       ELSE /\ query' = v.s
            /\ primaryTopic' = extractTopic(v.s)
            /\ calls' = [calls EXCEPT !.orchestrate = @ + 1, !.research = @ + 1]
            /\ pc' = "Researching"
            /\ http' = http
    /\ UNCHANGED <<researchResult, analysisResult, response, threw, returned, escaped,
                   input, output>>

\* A stage threw: the catch clause of its try block, or the exception leaves
\* orchestrate.
Exit(resp) ==
    /\ response' = resp
    /\ returned' = returned + 1
    /\ pc' = "Done"
    /\ escaped' = escaped

Escape ==
    /\ escaped' = TRUE
    /\ pc' = "Done"
    /\ UNCHANGED <<response, returned>>

\* The request settles and ResearchAgent.run returns its FetchResult.
ResearchReturns(outcome) ==
    /\ pc = "Researching"
    /\ researchResult' = fetchWikiSummary(primaryTopic, outcome)
    /\ pc' = "Analyzing"
    /\ UNCHANGED <<body, query, primaryTopic, analysisResult, response, http, calls,
                   threw, returned, escaped, input, output>>

\* researchAgent.run rejects.
ResearchThrows ==
    /\ pc = "Researching"
    /\ threw' = threw \cup {"research"}
    /\ IF "research" \in GuardedStages
       THEN Exit(researchFailedResponse(query))
       ELSE Escape
    /\ UNCHANGED <<body, query, primaryTopic, researchResult, analysisResult, http,
                   calls, input, output>>

\* analysisAgent.run returns.
AnalysisReturns ==
    /\ pc = "Analyzing"
    /\ ~AnalysisAgentThrows(researchResult)
    /\ calls' = [calls EXCEPT !.analysis = @ + 1]
    /\ analysisResult' = AnalysisAgentRun(researchResult)
    /\ pc' = "Planning"
    /\ UNCHANGED <<body, query, primaryTopic, researchResult, response, http, threw,
                   returned, escaped, input, output>>

\* The analysis catch clause returning at once, as the other two do.
AnalysisThrowsReturnsEarly ==
    /\ pc = "Analyzing"
    /\ calls' = [calls EXCEPT !.analysis = @ + 1]
    /\ threw' = threw \cup {"analysis"}
    /\ analysisResult' = analysisDefault
    /\ Exit(taskFailedResponse(query, researchResult, analysisDefault))
    /\ UNCHANGED <<body, query, primaryTopic, researchResult, http, input, output>>

\* analysisAgent.run throws.
AnalysisThrows ==
    /\ pc = "Analyzing"
    /\ calls' = [calls EXCEPT !.analysis = @ + 1]
    /\ threw' = threw \cup {"analysis"}
    /\ IF "analysis" \in GuardedStages
       THEN /\ analysisResult' = analysisDefault
            /\ pc' = "Planning"
            /\ UNCHANGED <<response, returned, escaped>>
       ELSE /\ Escape
            /\ UNCHANGED analysisResult
    /\ UNCHANGED <<body, query, primaryTopic, researchResult, http, input, output>>

\* taskAgent.run returns and orchestrate returns the aggregate.
PlanReturns(now) ==
    /\ pc = "Planning"
    /\ calls' = [calls EXCEPT !.task = @ + 1]
    /\ Exit(successResponse(query, now, researchResult, analysisResult,
                            TaskAgentRun(query, researchResult, analysisResult)))
    /\ UNCHANGED <<body, query, primaryTopic, researchResult, analysisResult, http,
                   threw, input, output>>

\* taskAgent.run throws.
PlanThrows ==
    /\ pc = "Planning"
    /\ calls' = [calls EXCEPT !.task = @ + 1]
    /\ threw' = threw \cup {"task"}
    /\ IF "task" \in GuardedStages
       THEN Exit(taskFailedResponse(query, researchResult, analysisResult))
       ELSE Escape
    /\ UNCHANGED <<body, query, primaryTopic, researchResult, analysisResult, http,
                   input, output>>

\* The handler sends the result, or the 500 object when orchestrate rejected.
Respond ==
    /\ pc = "Done"
    /\ http' = IF escaped
               THEN [status |-> 500,
                     body |-> [query |-> query, error |-> TRUE, details |-> Null]]
               ELSE [status |-> 200, body |-> response]
    /\ pc' = "Responded"
    /\ UNCHANGED <<body, query, primaryTopic, researchResult, analysisResult, response,
                   calls, threw, returned, escaped, input, output>>

Next ==
    \/ \E v \in BodyQueries : PostQuery(v)
    \/ \E outcome \in ServiceOutcomes : ResearchReturns(outcome)
    \/ ResearchThrows
    \/ AnalysisReturns
    \/ AnalysisThrows
    \/ \E now \in 1..MaxClock : PlanReturns(now)
    \/ PlanThrows
    \/ Respond

Spec == Init /\ [][Next]_vars

\* ------------------------------------------------------------------------
\* extractTopic and classifyIntent called on their own
\* ------------------------------------------------------------------------
InitTopic ==
    /\ pc = "call"
    /\ PipelineIdle
    /\ input \in {[query |-> q] : q \in TopicQueries}
    /\ output = Undefined

CallExtractTopic ==
    /\ pc = "call"
    /\ output' = Str(extractTopic(input.query))
    /\ pc' = "return"
    /\ UNCHANGED <<input, pipelineVars>>

SpecTopic == InitTopic /\ [][CallExtractTopic]_vars

InitIntent ==
    /\ pc = "call"
    /\ PipelineIdle
    /\ input \in {[query |-> q, hasContent |-> h] : q \in IntentQueries, h \in BOOLEAN}
    /\ output = Undefined

CallClassifyIntent ==
    /\ pc = "call"
    /\ output' = [mode |-> classifyIntent(input.query, input.hasContent)]
    /\ pc' = "return"
    /\ UNCHANGED <<input, pipelineVars>>

SpecIntent == InitIntent /\ [][CallClassifyIntent]_vars

\* ------------------------------------------------------------------------
\* Properties
\* ------------------------------------------------------------------------
Finished == pc \in {"Done", "Responded"} /\ calls.orchestrate = 1

\* The stage the request is in, in the order the stages are passed.
StageRank ==
    CASE pc = "Researching" -> 1
      [] pc = "Analyzing" -> 2
      [] pc = "Planning" -> 3
      [] pc = "Done" -> 4
      [] pc = "Responded" -> 5
      [] OTHER -> 0

\* C1: one invocation of orchestrate ends by returning exactly one response
\* object, whatever stages threw, and no exception ever leaves it: nothing is
\* returned before it ends, exactly one object has been returned once it has
\* ended, and every step moves it to a later stage, so that it ends after at
\* most four steps.
C1_ReturnsOneResponseNeverThrows ==
    /\ [](~escaped)
    /\ [](returned = IF Finished THEN 1 ELSE 0)
    /\ [](Finished => (response # Undefined /\ "finalAnswer" \in DOMAIN response))
    /\ [](calls.orchestrate <= 1)
    /\ [][StageRank' > StageRank]_vars

C1_Witness ==
    /\ pc = "Done"
    /\ threw = {"analysis", "task"}
    /\ returned = 1

PipelineResponseFields == {"query", "timestamp", "research", "analysis", "task", "finalAnswer"}

\* C2: every object orchestrate returns has all the fields of a
\* PipelineResponse: query, timestamp, research, analysis, task.mode and
\* finalAnswer.
C2_EveryResponseWellFormed ==
    returned > 0 =>
        /\ PipelineResponseFields \subseteq DOMAIN response
        /\ "mode" \in DOMAIN response.task

\* C3: when the research stage throws, the analyzer and the task stage are
\* never invoked and the response has error = true, research = null,
\* analysis = null, task.mode = 'no-content' and a finalAnswer saying that the
\* research agent met an unexpected error.
C3_ResearchFailureShortCircuits ==
    "research" \in threw =>
        /\ Finished
        /\ calls.analysis = 0
        /\ calls.task = 0
        /\ threw = {"research"}
        /\ response.error = TRUE
        /\ response.errorMessage = "Research step failed unexpectedly."
        /\ response.research = Null
        /\ response.analysis = Null
        /\ response.task = [mode |-> "no-content"]
        /\ response.finalAnswer[1].lit =
              "No Content Found\n\nThe research agent encountered an unexpected error while processing your query: \""
        /\ response.finalAnswer[2] = Val(query)

C3_Witness ==
    /\ pc = "Done"
    /\ "research" \in threw
    /\ query = WhoIsAdaLovelace
    /\ returned = 1

\* The default the orchestrator substitutes for a failed analysis.
DefaultAnalysisResult ==
    [hasContent |-> FALSE, difficulty |-> "unknown", keyPoints |-> <<>>,
     advisory |-> "Analysis failed unexpectedly."]

\* C4: when the analyzer throws, orchestrate does not return at that point:
\* it goes on to the task stage with the default AnalysisResult and the
\* FetchResult it had, the task stage is invoked, and the response carries
\* that default as analysis and that FetchResult as research.
C4_AnalysisFailureDegrades ==
    /\ []("analysis" \in threw =>
            /\ analysisResult = DefaultAnalysisResult
            /\ researchResult # Undefined
            /\ (pc = "Planning") => (returned = 0 /\ calls.task = 0)
            /\ (pc # "Planning") =>
                 /\ Finished
                 /\ calls.task = 1
                 /\ response.analysis = DefaultAnalysisResult
                 /\ response.research = researchResult
                 /\ response.task.mode = "no-content")
    /\ [][(pc \in {"Analyzing", "Planning"}) => (researchResult' = researchResult)]_vars
    /\ [][(pc = "Analyzing" /\ "analysis" \in threw') => (pc' = "Planning")]_vars

C4_Witness ==
    /\ pc = "Done"
    /\ threw = {"analysis"}
    /\ researchResult.ok
    /\ "timestamp" \in DOMAIN response
    /\ calls.task = 1

\* C5: when the task stage throws, the response's finalAnswer says that an
\* internal error prevented generating an answer, and its research and
\* analysis fields are the FetchResult of the research stage and the
\* analyzer's result or, after an analyzer failure, the default.
C5_TaskFailureKeepsEarlierResults ==
    "task" \in threw =>
        /\ Finished
        /\ response.finalAnswer[1].lit =
              "An internal error prevented generating a final answer for the query: \""
        /\ response.finalAnswer[2] = Val(query)
        /\ response.research = researchResult
        /\ response.analysis = analysisResult
        /\ researchResult # Undefined
        /\ "ok" \in DOMAIN researchResult
        /\ analysisResult = IF "analysis" \in threw THEN DefaultAnalysisResult
                            ELSE AnalysisAgentRun(researchResult)

C5_Witness ==
    /\ pc = "Done"
    /\ threw = {"task"}
    /\ response.analysis.hasContent
    /\ Len(response.analysis.keyPoints) = 2

NonNull(v) == v \notin {Null, Undefined}

\* C6: every FetchResult the fetcher returns has, when ok is true, a summary
\* and a url that are both non-null and, when ok is false, a null summary, a
\* null url and an error.
C6_FetchResultInvariant ==
    researchResult # Undefined =>
        IF researchResult.ok
        THEN NonNull(researchResult.summary) /\ NonNull(researchResult.url)
        ELSE /\ researchResult.summary = Null
             /\ researchResult.url = Null
             /\ Truthy(Field(researchResult, "error"))

\* C7: orchestrate is invoked only for a query that is a string and is not
\* empty after trimming.
C7_OnlyNonBlankQueriesEnterPipeline ==
    calls.orchestrate > 0 =>
        /\ body.ty = "string"
        /\ trim(body.s) # <<>>

\* C8: for every non-empty query (one with a character other than
\* whitespace, punctuation-only queries such as '?' included), extractTopic
\* returns a non-empty key with no whitespace character and no '?'.
C8_TopicKeyNonEmptyAndClean ==
    (pc = "return" /\ "hasContent" \notin DOMAIN input /\ trim(input.query) # <<>>) =>
        /\ output.s # <<>>
        /\ \A i \in 1..Len(output.s) : ~IsSpace(output.s[i]) /\ output.s[i] # "?"

IntentPhraseIn(q) ==
    \E p \in GettingStartedPhrases \cup ComparisonPhrases : includes(toLowerCase(q), p)

\* Summaries of exactly three sentences, each longer than 20 characters and
\* free of advanced and beginner terms.
ThreePlainSentenceSummaries ==
    {join(ss, SP) \o tail : ss \in [1..3 -> PlainSentences], tail \in {<<>>, SP}}

\* C9: for a query without intent keywords and a successful fetch whose
\* summary is three such sentences, the response has task.mode = 'overview',
\* difficulty 'intermediate', exactly the three sentences as key points in
\* their order, and a finalAnswer with the heading of the fetched topic and
\* the fetch's URL.
C9_ThreeSentencesGiveThreeKeyPoints ==
    ( /\ Finished
      /\ threw = {}
      /\ ~IntentPhraseIn(query)
      /\ researchResult.ok
      /\ researchResult.summary.ty = "string"
      /\ researchResult.summary.s \in ThreePlainSentenceSummaries
      /\ researchResult.topic.ty = "string"
      /\ researchResult.url.ty = "string" ) =>
        /\ response.task.mode = "overview"
        /\ response.analysis.difficulty = "intermediate"
        /\ Len(response.analysis.keyPoints) = 3
        /\ join(response.analysis.keyPoints, SP) = trim(researchResult.summary.s)
        /\ response.finalAnswer[1] = Lit(Heading)
        /\ response.finalAnswer[2] = Val(researchResult.topic.s)
        /\ \E i \in 1..Len(response.finalAnswer) :
              response.finalAnswer[i] = Val(researchResult.url.s)

HasGettingStartedPhrase(q) ==
    \E p \in GettingStartedPhrases : includes(toLowerCase(q), p)

HasComparisonPhrase(q) ==
    \E p \in ComparisonPhrases : includes(toLowerCase(q), p)

\* C10: classifyIntent depends only on (query, hasContent) and the first
\* matching rule wins: 'no-content' whenever hasContent is false; otherwise
\* 'getting-started' for a query with a getting-started phrase, also when it
\* contains 'compare' or ' vs '; otherwise 'comparison' for a query with
\* 'compare' or ' vs '; otherwise 'overview'.
C10_ClassifyIntentPriority ==
    (pc = "return" /\ "hasContent" \in DOMAIN input) =>
        /\ ~input.hasContent => output.mode = "no-content"
        /\ (input.hasContent /\ HasGettingStartedPhrase(input.query)) =>
              output.mode = "getting-started"
        /\ ( /\ input.hasContent
             /\ ~HasGettingStartedPhrase(input.query)
             /\ HasComparisonPhrase(input.query) ) => output.mode = "comparison"
        /\ ( /\ input.hasContent
             /\ ~HasGettingStartedPhrase(input.query)
             /\ ~HasComparisonPhrase(input.query) ) => output.mode = "overview"

C10_Witness ==
    /\ pc = "return"
    /\ "hasContent" \in DOMAIN input
    /\ input.hasContent
    /\ HasGettingStartedPhrase(input.query)
    /\ HasComparisonPhrase(input.query)
    /\ output.mode = "getting-started"

\* A FetchResult without content: ok is false, or the summary is null,
\* missing or the empty string.
WithoutContent(r) == ~r.ok \/ r.summary \in {Null, Undefined, Str(<<>>)}

\* C11: every AnalysisResult of a pipeline run, returned by AnalysisAgent.run
\* or substituted after an analyzer failure, that has hasContent = false has
\* difficulty 'unknown' and no key points; and AnalysisAgent.run returns such
\* a result for every FetchResult with ok = false or a null or empty summary.
C11_NoContentMeansUnknownAndNoKeyPoints ==
    analysisResult # Undefined =>
        /\ ~analysisResult.hasContent =>
              (analysisResult.difficulty = "unknown" /\ analysisResult.keyPoints = <<>>)
        /\ ("analysis" \notin threw /\ WithoutContent(researchResult)) =>
              /\ ~analysisResult.hasContent
              /\ analysisResult.difficulty = "unknown"
              /\ analysisResult.keyPoints = <<>>
        /\ (returned > 0 /\ response.analysis # Null) =>
              response.analysis = analysisResult

C11_Witness ==
    /\ pc = "Done"
    /\ threw = {}
    /\ researchResult.ok
    /\ researchResult.summary = Str(<<>>)
    /\ ~response.analysis.hasContent
    /\ response.analysis.keyPoints = <<>>

\* The subject phrase the first matching question pattern captures, <<>> when
\* no pattern matches.
capturedPhrase(q) ==
    LET captures == SelectSeq(patternCaptures(trim(q)), LAMBDA c : c # <<>>)
    IN  IF captures = <<>> THEN <<>> ELSE Head(captures)

\* A pattern matches and every token of the captured phrase is a filler word
\* or a price word.
AllTokensFiltered(q) ==
    /\ capturedPhrase(q) # <<>>
    /\ \A t \in Range(splitWords(toLowerCase(removeQuestionMarks(capturedPhrase(q))))) :
          t \in FILLER_WORDS \cup PRICE_WORDS

TopicReturned == pc = "return" /\ "hasContent" \notin DOMAIN input

\* C12 as stated: when a pattern matches but every token of the captured
\* phrase is a filler or price word, the key is the one the keyword fallback
\* computes over the whole query, not one made from the captured phrase.
C12_AllFilteredUsesKeywordFallback ==
    (TopicReturned /\ AllTokensFiltered(input.query)) =>
        output.s = keywordFallback(input.query)

\* C12 as amended: in that case the key is the normalized unfiltered
\* captured phrase ('?' removed, tokens title-cased and joined by '_') when
\* that has at least 3 characters, and the key of the keyword fallback over
\* the whole query only when it is shorter.
C12_AllFilteredKeepsCapturedPhrase ==
    (TopicReturned /\ AllTokensFiltered(input.query)) =>
        output.s = IF Len(normalizeTitle(capturedPhrase(input.query))) >= 3
                   THEN normalizeTitle(capturedPhrase(input.query))
                   ELSE keywordFallback(input.query)

C12_Witness ==
    /\ TopicReturned
    /\ input.query = <<"W", "h", "a", "t", " ", "i", "s", " ", "t", "h", "e", " ",
                       "c", "o", "s", "t">>
    /\ AllTokensFiltered(input.query)
    /\ output.s = <<"T", "h", "e", "_", "C", "o", "s", "t">>
    /\ keywordFallback(input.query) = <<"C", "o", "s", "t">>

====
